---- MODULE Spec2Model ----
(***************************************************************************)
(* Model of scripts/generateEquationDatabase.ts: the runtime "A/B testing" *)
(* discovery of method signatures on an opaque math library.               *)
(*                                                                         *)
(* Numbers.  A JavaScript number is modelled as an integer count of ticks  *)
(* of 1e-5, one tenth of the comparison tolerance 1e-4 of areResultsEqual, *)
(* so that differences below, at and above the tolerance are all           *)
(* representable.  NaN is a distinguished value that every arithmetic      *)
(* operator propagates and every comparison answers FALSE on.              *)
(*                                                                         *)
(* Objects.  A value is a record [kind, c, ref]: kind is the runtime class *)
(* (what typeof / instanceof observe), c the numeric components and ref    *)
(* the object's identity (its allocation site), which is what === compares *)
(* for objects.                                                            *)
(***************************************************************************)
EXTENDS Integers, Sequences, FiniteSets, TLC

VARIABLES
    pc,                  \* position of the script / of the harness
    surface,             \* property names the opaque target exposes in this run
    made,                \* factory harness: last createInstance call and its result
    compared,            \* factory harness: last A/B pair handed to areResultsEqual
    call,                \* testMethod harness: arguments of the last testMethod call
    verdict,             \* testMethod harness: outcome of the last testMethod call
    classIdx,            \* generateDatabase: index of className in types
    methods,             \* generateDatabase: discoverMethods(className, instance)
    methodIdx,           \* generateDatabase: index of methodName in methods
    paramCount,          \* generateDatabase: loop variable paramCount
    combo,               \* generateDatabase: the generator's position (the tuple it last yielded)
    foundForThisCount,   \* generateDatabase: local flag
    foundValidSignature, \* generateDatabase: local flag
    validCount,          \* generateDatabase: local counter
    allSignatures,       \* generateDatabase: accepted signatures, in order
    lastTests,           \* generateDatabase: testMethod calls of the latest iteration
    database,            \* generateDatabase: the database object, once built
    firstRun             \* the database an earlier run of the script built, if any

vars == <<pc, surface, made, compared, call, verdict, classIdx, methods,
          methodIdx, paramCount, combo, foundForThisCount,
          foundValidSignature, validCount, allSignatures, lastTests, database,
          firstRun>>

\* what a run of generateDatabase never writes
harnessVars == <<made, compared, call, verdict, firstRun>>
runVars == <<classIdx, methods, methodIdx, paramCount, combo,
             foundForThisCount, foundValidSignature, validCount,
             allSignatures, lastTests, database>>

Null == [kind |-> "null", c |-> <<>>, ref |-> <<"prim", 0, 0>>]

\* a harness or result variable that holds nothing yet
NoCall == [type |-> "none"]

-----------------------------------------------------------------------------
(* Numbers *)

\* ticks per 1.0: ten ticks per tolerance 0.0001
Unit == 10 * 10000
Tenth == Unit \div 10
\* the tolerance 0.0001 of areResultsEqual, in ticks
Tol == 10
NaN == 0 - 2000000000

IsNaN(a) == a = NaN
Add(a, b) == IF IsNaN(a) \/ IsNaN(b) THEN NaN ELSE a + b
Sub(a, b) == IF IsNaN(a) \/ IsNaN(b) THEN NaN ELSE a - b
\* product of two numbers that are whole hundredths (all factory components are
\* whole tenths), scaled down before multiplying to stay within 32 bits
Mul(a, b) == IF IsNaN(a) \/ IsNaN(b) THEN NaN
             ELSE (a \div (Unit \div 100)) * (b \div 1000)
MathAbs(a) == IF IsNaN(a) THEN NaN ELSE IF a < 0 THEN 0 - a ELSE a
\* a < b and a > b of JavaScript: false as soon as one side is NaN
Less(a, b) == ~IsNaN(a) /\ ~IsNaN(b) /\ a < b
Greater(a, b) == ~IsNaN(a) /\ ~IsNaN(b) /\ a > b

RECURSIVE SumSeq(_)
SumSeq(s) == IF s = <<>> THEN 0 ELSE Add(Head(s), SumSeq(Tail(s)))

-----------------------------------------------------------------------------
(* Value types *)

\* type valueTypeName
ValueTypeNames == {"Vector2", "Vector3", "Vector4", "Quaternion", "Euler",
                   "Matrix3", "Matrix4", "number", "boolean"}

Variants == {"A", "B"}

PrimRef == <<"prim", 0, 0>>
Undefined == [kind |-> "undefined", c |-> <<>>, ref |-> PrimRef]
Num(n) == [kind |-> "number", c |-> <<n>>, ref |-> PrimRef]
\* true and false hold 1 and 0, the numbers they convert to
Bool(b) == [kind |-> "boolean", c |-> <<IF b THEN Unit ELSE 0>>, ref |-> PrimRef]
Obj(kind, comps, ref) == [kind |-> kind, c |-> comps, ref |-> ref]

IsPrimitive(v) == v.kind \in {"number", "boolean", "undefined", "null"}

\* a === b
StrictEquals(a, b) ==
    IF a.kind # b.kind THEN FALSE
    ELSE IF a.kind = "number" THEN ~IsNaN(a.c[1]) /\ a.c[1] = b.c[1]
    ELSE IF IsPrimitive(a) THEN a.c = b.c
    ELSE a.ref = b.ref

\* sequence of whole tenths to ticks
Tenths(s) == [i \in 1..Len(s) |-> s[i] * Tenth]

\* Matrix3.set(n11, n12, ..., n33): row-major arguments, column-major elements
MatrixSet3(n) == <<n[1], n[4], n[7], n[2], n[5], n[8], n[3], n[6], n[9]>>
\* Matrix4.set(n11, n12, ..., n44)
MatrixSet4(n) == <<n[1], n[5], n[9], n[13], n[2], n[6], n[10], n[14],
                   n[3], n[7], n[11], n[15], n[4], n[8], n[12], n[16]>>

-----------------------------------------------------------------------------
(* createInstance *)

\* the default value of the parameter keepFirstNComponentsIdentical
DefaultKeep == 0

\* baseValues / the variant A literals of each case
BaseValues(type) ==
    CASE type = "Vector2" -> Tenths(<<15, 27>>)
      [] type = "Vector3" -> Tenths(<<15, 27, 31>>)
      [] type = "Vector4" -> Tenths(<<15, 27, 31, 42>>)
      [] type = "Quaternion" -> Tenths(<<15, 27, 31, 9>>)
      [] type = "Euler" -> Tenths(<<5, 12, 8>>)
      [] type = "Matrix3" -> MatrixSet3(Tenths(<<10, 1, 2, 1, 10, 3, 2, 3, 10>>))
      [] type = "Matrix4" -> MatrixSet4(Tenths(<<10, 1, 2, 0, 1, 10, 3, 0,
                                                 2, 3, 10, 0, 0, 0, 0, 10>>))
      [] type = "number" -> Tenths(<<57>>)
      [] type = "boolean" -> <<Unit>>

\* mutant: the variant B literals repeat the variant A literals
AltValuesSameAsBase(type) == BaseValues(type)

\* altValues / the variant B literals of each case
AltValues(type) ==
    CASE type = "Vector2" -> Tenths(<<32, 48>>)
      [] type = "Vector3" -> Tenths(<<42, 58, 63>>)
      [] type = "Vector4" -> Tenths(<<53, 64, 75, 86>>)
      [] type = "Quaternion" -> Tenths(<<42, 58, 63, 2>>)
      [] type = "Euler" -> Tenths(<<11, 3, 17>>)
      [] type = "Matrix3" -> MatrixSet3(Tenths(<<10, 4, 5, 4, 10, 6, 5, 6, 10>>))
      [] type = "Matrix4" -> MatrixSet4(Tenths(<<10, 4, 5, 0, 4, 10, 6, 0,
                                                 5, 6, 10, 0, 0, 0, 0, 10>>))
      [] type = "number" -> Tenths(<<83>>)
      [] type = "boolean" -> <<0>>

\* component i (1-based) as the Vector2/Vector3/Vector4 cases compute it when
\* keepFirstNComponentsIdentical > 0: x is always baseValues[0], the others are
\* keep >= i ? baseValues : (variant === "A" ? baseValues : altValues)
KeptComponent(type, variant, keep, i) ==
    IF i = 1 THEN BaseValues(type)[1]
    ELSE IF keep >= i THEN BaseValues(type)[i]
    ELSE IF variant = "A" THEN BaseValues(type)[i]
    ELSE AltValues(type)[i]

\* the Quaternion case: every component goes through effectiveKeep
QuaternionComponent(variant, effectiveKeep, i) ==
    IF effectiveKeep >= i THEN BaseValues("Quaternion")[i]
    ELSE IF variant = "A" THEN BaseValues("Quaternion")[i]
    ELSE AltValues("Quaternion")[i]

\* mutant: the Quaternion case falls back to one kept component
EffectiveKeepDefaultOne(keep) == IF keep > 0 THEN keep ELSE 1

\* mutant: the Quaternion case without its default of 3
EffectiveKeepNoDefault(keep) == keep

\* effectiveKeep of the Quaternion case
EffectiveKeep(keep) == IF keep > 0 THEN keep ELSE 3

\* createInstance(type, variant, keepFirstNComponentsIdentical); ref names the
\* call site: every call allocates a new object
CreateInstance(type, variant, keep, ref) ==
    CASE type \in {"Vector2", "Vector3", "Vector4"} ->
            IF keep > 0
            THEN Obj(type, [i \in 1..Len(BaseValues(type)) |->
                               KeptComponent(type, variant, keep, i)], ref)
            ELSE Obj(type, IF variant = "A" THEN BaseValues(type)
                           ELSE AltValues(type), ref)
      [] type = "Quaternion" ->
            Obj(type, [i \in 1..4 |->
                         QuaternionComponent(variant, EffectiveKeep(keep), i)], ref)
      [] type \in {"Euler", "Matrix3", "Matrix4"} ->
            Obj(type, IF variant = "A" THEN BaseValues(type)
                      ELSE AltValues(type), ref)
      [] type = "number" ->
            Num(IF variant = "A" THEN BaseValues(type)[1] ELSE AltValues(type)[1])
      [] type = "boolean" -> Bool(IF variant = "A" THEN TRUE ELSE FALSE)
      [] OTHER -> Null

\* getTypeComponentCount
GetTypeComponentCount(type) ==
    CASE type = "Vector2" -> 2
      [] type \in {"Vector3", "Euler"} -> 3
      [] type \in {"Vector4", "Quaternion"} -> 4
      [] type = "Matrix3" -> 9
      [] type = "Matrix4" -> 16
      [] type \in {"number", "boolean"} -> 1
      [] OTHER -> 0

\* mutant: the Vector3 case is missing
GetSmallerTypeNoVector3(type) ==
    CASE type = "Euler" -> "Vector2"
      [] type \in {"Vector4", "Quaternion"} -> "Vector3"
      [] type = "Matrix4" -> "Matrix3"
      [] OTHER -> "none"

\* getSmallerType; "none" stands for null
GetSmallerType(type) ==
    CASE type \in {"Vector3", "Euler"} -> "Vector2"
      [] type \in {"Vector4", "Quaternion"} -> "Vector3"
      [] type = "Matrix4" -> "Matrix3"
      [] OTHER -> "none"

\* getTypeName
GetTypeName(value) ==
    IF value.kind \in {"null", "undefined"} THEN "void"
    ELSE IF value.kind = "boolean" THEN "boolean"
    ELSE IF value.kind = "number" THEN "number"
    ELSE IF value.kind \in {"Vector2", "Vector3", "Vector4", "Quaternion",
                            "Euler", "Matrix3", "Matrix4"} THEN value.kind
    ELSE "unknown"

-----------------------------------------------------------------------------
(* areResultsEqual *)

AbsDiffs(a, b, n) == [i \in 1..n |-> MathAbs(Sub(a.c[i], b.c[i]))]

\* a.distanceTo(b) < 0.0001, as the sum of squares against the squared
\* tolerance; a component difference at or above the tolerance already decides
DistanceBelowTol(a, b) ==
    LET d == AbsDiffs(a, b, 3)
    IN IF \E i \in 1..3 : IsNaN(d[i]) \/ d[i] >= Tol THEN FALSE
       ELSE d[1] * d[1] + d[2] * d[2] + d[3] * d[3] < Tol * Tol

AreResultsEqual(a, b) ==
    IF a.kind = "number" /\ b.kind = "number"
    THEN Less(MathAbs(Sub(a.c[1], b.c[1])), Tol)
    ELSE IF a.kind = "Vector3" /\ b.kind = "Vector3"
    THEN DistanceBelowTol(a, b)
    ELSE IF a.kind = "Quaternion" /\ b.kind = "Quaternion"
    THEN \A i \in 1..4 : Less(AbsDiffs(a, b, 4)[i], Tol)
    ELSE IF a.kind = "Euler" /\ b.kind = "Euler"
    THEN \A i \in 1..3 : Less(AbsDiffs(a, b, 3)[i], Tol)
    ELSE IF a.kind = "Matrix4" /\ b.kind = "Matrix4"
    THEN ~(\E i \in 1..16 : Greater(AbsDiffs(a, b, 16)[i], Tol))
    ELSE StrictEquals(a, b)

-----------------------------------------------------------------------------
(* The opaque target: the operations testMethod invokes.  The library is    *)
(* not part of the script; its operations are inputs.  Each property name   *)
(* has an instance-side and a constructor-side (static) behaviour.          *)

Beh(kind, mask, ret, shared) ==
    [kind |-> kind, mask |-> mask, ret |-> ret, shared |-> shared]
NoBeh == Beh("none", {}, "void", FALSE)
\* a property that is not a function (a flag such as isVector3)
FlagProp == Beh("flag", {}, "boolean", FALSE)
Self == Beh("self", {}, "void", FALSE)
Const(ret, shared) == Beh("const", {}, ret, shared)
\* v.x + v.y + ... over the components in mask of the first argument
Reads(mask, ret) == Beh("reads", mask, ret, FALSE)
\* the property of the first argument itself, returned without arithmetic
Gets(i) == Beh("gets", {i}, "number", FALSE)
\* this.x * v.x + this.y * v.y + this.z * v.z
Dot == Beh("dot", {1, 2, 3}, "number", FALSE)
\* this.x + this.y: reads the owner only
Length == Beh("length", {1, 2}, "number", FALSE)
\* the sum of Number(argument) over all arguments
SumArgs == Beh("sumArgs", {}, "number", FALSE)
\* v.elements[i]
Element(i) == Beh("element", {i}, "number", FALSE)
\* a class constructor called without new: always throws
Throws == Beh("throws", {}, "void", FALSE)
\* v.x === this.x && v.y === this.y && ..., or the same over the elements
Equals == Beh("equals", {}, "boolean", FALSE)
\* the sum of the components in mask, each read through a method call on it
\* (v.z.valueOf() + ...): throws when a component is undefined
StrictReads(mask) == Beh("strictReads", mask, "number", FALSE)
\* Number(second argument); throws when there is no second argument
Second == Beh("second", {2}, "number", FALSE)
\* Number(argument), with a range check that throws above the limit
Limited(limit) == Beh("limited", {limit}, "number", FALSE)

Entry(inst, stat, levels) == [inst |-> inst, stat |-> stat, levels |-> levels]

\* the property names of the target, in definition order
AllNames ==
    <<"returnsThis", "constNumber", "constNaN", "constBoolean", "constVector2",
      "constVector3", "constVector4", "constQuaternion", "constEuler",
      "constMatrix3", "constMatrix4", "cachedVector2", "returnsVoid",
      "returnsObject", "sumX", "sumXY", "sumXYZ", "sumXYZW", "sumW", "getW",
      "vec2OfXY", "vec2OfXYZ", "vec3OfXYZ", "vec2OfW", "dot", "length",
      "sumArgs", "element1", "element4", "fluentWithStatic", "staticSum",
      "clone", "_onChange", "isVector3", "constructor", "equals", "toJSON",
      "copy", "toArray", "strictZ", "checkedNumber", "secondArg">>

Registry(name) ==
    CASE name = "returnsThis" -> Entry(Self, Self, {1})
      [] name = "constNumber" -> Entry(Const("number", FALSE), NoBeh, {1})
      [] name = "constNaN" -> Entry(Const("NaN", FALSE), NoBeh, {1})
      [] name = "constBoolean" -> Entry(Const("boolean", FALSE), NoBeh, {1})
      [] name = "constVector2" -> Entry(Const("Vector2", FALSE), NoBeh, {1})
      [] name = "constVector3" -> Entry(Const("Vector3", FALSE), NoBeh, {1})
      [] name = "constVector4" -> Entry(Const("Vector4", FALSE), NoBeh, {1})
      [] name = "constQuaternion" -> Entry(Const("Quaternion", FALSE), NoBeh, {1})
      [] name = "constEuler" -> Entry(Const("Euler", FALSE), NoBeh, {1})
      [] name = "constMatrix3" -> Entry(Const("Matrix3", FALSE), NoBeh, {1})
      [] name = "constMatrix4" -> Entry(Const("Matrix4", FALSE), NoBeh, {1})
      [] name = "cachedVector2" -> Entry(Const("Vector2", TRUE), NoBeh, {1})
      [] name = "returnsVoid" -> Entry(Const("void", FALSE), NoBeh, {1})
      [] name = "returnsObject" -> Entry(Const("object", FALSE), NoBeh, {1})
      [] name = "sumX" -> Entry(Reads({1}, "number"), NoBeh, {1})
      [] name = "sumXY" -> Entry(Reads({1, 2}, "number"), NoBeh, {1})
      [] name = "sumXYZ" -> Entry(Reads({1, 2, 3}, "number"), NoBeh, {1})
      [] name = "sumXYZW" -> Entry(Reads({1, 2, 3, 4}, "number"), NoBeh, {1})
      [] name = "sumW" -> Entry(Reads({4}, "number"), NoBeh, {1})
      [] name = "getW" -> Entry(Gets(4), NoBeh, {1})
      [] name = "vec2OfXY" -> Entry(Reads({1, 2}, "Vector2"), NoBeh, {1})
      [] name = "vec2OfXYZ" -> Entry(Reads({1, 2, 3}, "Vector2"), NoBeh, {1})
      [] name = "vec3OfXYZ" -> Entry(Reads({1, 2, 3}, "Vector3"), NoBeh, {1})
      [] name = "vec2OfW" -> Entry(Reads({4}, "Vector2"), NoBeh, {1})
      [] name = "dot" -> Entry(Dot, NoBeh, {1})
      [] name = "length" -> Entry(Length, NoBeh, {1, 2})
      [] name = "sumArgs" -> Entry(SumArgs, SumArgs, {1})
      [] name = "element1" -> Entry(Element(1), NoBeh, {1})
      [] name = "element4" -> Entry(Element(4), NoBeh, {2})
      [] name = "fluentWithStatic" -> Entry(Self, SumArgs, {1})
      [] name = "staticSum" -> Entry(NoBeh, SumArgs, {})
      [] name = "clone" -> Entry(Const("Vector3", FALSE), NoBeh, {1})
      [] name = "_onChange" -> Entry(SumArgs, NoBeh, {1})
      [] name = "isVector3" -> Entry(FlagProp, NoBeh, {1})
      [] name = "constructor" -> Entry(Throws, NoBeh, {1, 2})
      [] name = "equals" -> Entry(Equals, NoBeh, {1})
      [] name = "toJSON" -> Entry(Const("object", FALSE), NoBeh, {2})
      [] name = "copy" -> Entry(Self, NoBeh, {1})
      [] name = "toArray" -> Entry(Const("object", FALSE), NoBeh, {1, 2})
      [] name = "strictZ" -> Entry(StrictReads({3}), NoBeh, {1})
      [] name = "checkedNumber" -> Entry(Limited(6 * Unit), NoBeh, {1})
      [] name = "secondArg" -> Entry(Second, NoBeh, {1})
      [] OTHER -> Entry(NoBeh, NoBeh, {})

RangeOf(s) == {s[i] : i \in DOMAIN s}

\* instance.constructor: one function object per class
ConstructorOf(instance) == Obj("function", <<>>, <<"class", 0, 0>>)

\* target[methodName]
Lookup(target, methodName) ==
    IF methodName \notin surface THEN NoBeh
    ELSE IF target.kind = "function" THEN Registry(methodName).stat
    ELSE Registry(methodName).inst

\* typeof target[methodName] === "function"
IsFunction(target, methodName) ==
    Lookup(target, methodName).kind \notin {"none", "flag"}

\* v.x, v.y, v.z, v.w (i = 1..4) used in arithmetic: undefined becomes NaN
Prop(v, i) ==
    IF v.kind \in {"Vector2", "Vector3", "Vector4", "Quaternion", "Euler"}
       /\ i <= Len(v.c)
    THEN v.c[i] ELSE NaN

\* Number(v)
ToNumber(v) ==
    IF v.kind = "number" THEN v.c[1]
    ELSE IF v.kind = "boolean" THEN v.c[1]
    ELSE NaN

SetToSeq(S) == [i \in 1..Cardinality(S) |->
                  CHOOSE x \in S : Cardinality({y \in S : y < x}) = i - 1]

Returned(value) == [fault |-> FALSE, value |-> value]
Thrown == [fault |-> TRUE, value |-> Undefined]

ConstValue(ret, ref) ==
    CASE ret = "number" -> Num(42 * Tenth)
      [] ret = "NaN" -> Num(NaN)
      [] ret = "boolean" -> Bool(TRUE)
      [] ret = "void" -> Undefined
      [] ret = "object" -> Obj("object", <<>>, ref)
      [] OTHER -> Obj(ret, BaseValues(ret), ref)

\* a number n returned as ret: the number itself or a new vector holding it
Wrap(ret, n, ref) ==
    CASE ret = "Vector2" -> Obj("Vector2", <<n, 0>>, ref)
      [] ret = "Vector3" -> Obj("Vector3", <<n, 0, 0>>, ref)
      [] OTHER -> Num(n)

\* target[methodName](...args); callId names the invocation, and a value the
\* operation allocates is a new object of that invocation
Invoke(target, methodName, args, callId) ==
    LET beh == Lookup(target, methodName)
        fresh == <<"result", callId, 0>>
    IN CASE beh.kind \in {"none", "flag", "throws"} -> Thrown
         [] beh.kind = "self" -> Returned(target)
         [] beh.kind = "const" ->
              Returned(ConstValue(beh.ret,
                                  IF beh.shared THEN <<"cached", 0, 0>> ELSE fresh))
         [] beh.kind = "reads" ->
              IF Len(args) = 0 THEN Thrown
              ELSE Returned(Wrap(beh.ret,
                       SumSeq([k \in 1..Cardinality(beh.mask) |->
                                  Prop(args[1], SetToSeq(beh.mask)[k])]), fresh))
         [] beh.kind = "gets" ->
              IF Len(args) = 0 THEN Thrown
              ELSE LET i == CHOOSE i \in beh.mask : TRUE
                   IN IF IsNaN(Prop(args[1], i)) THEN Returned(Undefined)
                      ELSE Returned(Num(Prop(args[1], i)))
         [] beh.kind = "dot" ->
              IF Len(args) = 0 THEN Thrown
              ELSE Returned(Num(SumSeq([i \in 1..3 |->
                                   Mul(Prop(target, i), Prop(args[1], i))])))
         [] beh.kind = "length" ->
              Returned(Num(Add(Prop(target, 1), Prop(target, 2))))
         [] beh.kind = "sumArgs" ->
              Returned(Num(SumSeq([i \in 1..Len(args) |-> ToNumber(args[i])])))
         [] beh.kind = "element" ->
              IF Len(args) = 0 \/ args[1].kind \notin {"Matrix3", "Matrix4"}
              THEN Thrown
              ELSE LET i == CHOOSE i \in beh.mask : TRUE
                   IN IF i + 1 <= Len(args[1].c)
                      THEN Returned(Num(args[1].c[i + 1]))
                      ELSE Returned(Undefined)
         [] beh.kind = "strictReads" ->
              IF Len(args) = 0 THEN Thrown
              ELSE IF \E i \in beh.mask : IsNaN(Prop(args[1], i)) THEN Thrown
              ELSE Returned(Num(SumSeq([k \in 1..Cardinality(beh.mask) |->
                                          Prop(args[1], SetToSeq(beh.mask)[k])])))
         [] beh.kind = "second" ->
              IF Len(args) < 2 THEN Thrown
              ELSE Returned(Num(ToNumber(args[2])))
         [] beh.kind = "limited" ->
              IF Len(args) = 0 THEN Thrown
              ELSE LET limit == CHOOSE l \in beh.mask : TRUE
                   IN IF Greater(ToNumber(args[1]), limit) THEN Thrown
                      ELSE Returned(Num(ToNumber(args[1])))
         [] beh.kind = "equals" ->
              IF Len(args) = 0 THEN Thrown
              ELSE IF target.kind \in {"Matrix3", "Matrix4"}
              THEN IF args[1].kind \notin {"Matrix3", "Matrix4"} THEN Thrown
                   ELSE Returned(Bool(\A i \in DOMAIN target.c :
                                         /\ i <= Len(args[1].c)
                                         /\ args[1].c[i] = target.c[i]))
              ELSE Returned(Bool(\A i \in DOMAIN target.c :
                                    Prop(args[1], i) = target.c[i]))

-----------------------------------------------------------------------------
(* testMethod *)

\* mutant: all four components of a Quaternion are kept identical
GetKeepFirstNFour(type) ==
    IF type = "Quaternion" THEN 4
    ELSE IF type = "Vector4" THEN 3
    ELSE 0

\* getKeepFirstN
GetKeepFirstN(type) ==
    IF type = "Quaternion" THEN 3
    ELSE IF type = "Vector4" THEN 3
    ELSE 0

\* paramTypes.map((type) => createInstance(type, variant, getKeepFirstN(type)))
MakeParams(paramTypes, variant, site) ==
    [idx \in 1..Len(paramTypes) |->
        CreateInstance(paramTypes[idx], variant, GetKeepFirstN(paramTypes[idx]),
                       <<site, idx, 0>>)]

\* mutant: the positions that keep their type reuse the objects of the
\* first two invocations
MakeParamsSmallerReusing(paramTypes, i, smallerType, variant, site) ==
    [idx \in 1..Len(paramTypes) |->
        IF idx = i
        THEN CreateInstance(smallerType, variant, GetKeepFirstN(smallerType),
                            <<site, i, idx>>)
        ELSE CreateInstance(paramTypes[idx], variant,
                            GetKeepFirstN(paramTypes[idx]),
                            <<IF variant = "A" THEN "paramsA" ELSE "paramsB", idx, 0>>)]

\* paramsSmallerA / paramsSmallerB: the smaller type at position i only
MakeParamsSmaller(paramTypes, i, smallerType, variant, site) ==
    [idx \in 1..Len(paramTypes) |->
        IF idx = i
        THEN CreateInstance(smallerType, variant, GetKeepFirstN(smallerType),
                            <<site, i, idx>>)
        ELSE CreateInstance(paramTypes[idx], variant,
                            GetKeepFirstN(paramTypes[idx]), <<site, i, idx>>)]

\* mutant: the later owners are built as variant B
MakeTargetVariantB(className, isStatic, ref) ==
    LET instance == CreateInstance(className, "B", DefaultKeep, ref)
    IN IF isStatic THEN ConstructorOf(instance) ELSE instance

\* the owner of one invocation: createInstance(className), or its constructor;
\* ref names the object the factory call allocates
MakeTarget(className, isStatic, ref) ==
    LET instance == CreateInstance(className, "A", DefaultKeep, ref)
    IN IF isStatic THEN ConstructorOf(instance) ELSE instance

\* the owners and parameter tuples of the two substituted invocations of the
\* smaller-type loop at position i
SmallerInvocations(className, paramTypes, isStatic, i) ==
    [targetSmallerA |-> MakeTarget(className, isStatic, <<"instanceSmallerA", i, 0>>),
     paramsSmallerA |-> MakeParamsSmaller(paramTypes, i, GetSmallerType(paramTypes[i]),
                                          "A", "paramsSmallerA"),
     targetSmallerB |-> MakeTarget(className, isStatic, <<"instanceSmallerB", i, 0>>),
     paramsSmallerB |-> MakeParamsSmaller(paramTypes, i, GetSmallerType(paramTypes[i]),
                                          "B", "paramsSmallerB")]

\* the results of the two substituted invocations, in call order
SmallerResults(methodName, i, inputs) ==
    [a |-> Invoke(inputs.targetSmallerA, methodName, inputs.paramsSmallerA, 10 + 2 * i),
     b |-> Invoke(inputs.targetSmallerB, methodName, inputs.paramsSmallerB, 11 + 2 * i)]

\* mutant: a fault in a substituted call counts as a difference
SmallerResultsDifferOrFault(results) ==
    IF results.a.fault \/ results.b.fault THEN TRUE
    ELSE ~AreResultsEqual(results.a.value, results.b.value)

\* smallerResultsAreDifferent, reached only when neither substituted call
\* faulted; a fault in either is caught inside the loop
SmallerResultsAreDifferent(results) ==
    IF results.a.fault \/ results.b.fault THEN FALSE
    ELSE ~AreResultsEqual(results.a.value, results.b.value)

\* one pass of the smaller-type loop at position i: TRUE when it returns null
SmallerTypeRejects(className, methodName, paramTypes, isStatic, i) ==
    IF GetSmallerType(paramTypes[i]) = "none" THEN FALSE
    ELSE SmallerResultsAreDifferent(
             SmallerResults(methodName, i,
                 SmallerInvocations(className, paramTypes, isStatic, i)))

\* mutant: the fluent check is missing
IsFluentSelfNever(resultA, classConstructor) == FALSE

\* resultA === classConstructor
IsFluentSelf(resultA, classConstructor) == StrictEquals(resultA, classConstructor)

NoSignature == [className |-> "none", methodName |-> "none",
                parameters |-> <<>>, returnType |-> "void", isStatic |-> FALSE]

\* what testMethod returns (sig; NoSignature stands for null), with the place
\* it returned from
Outcome(stage, sig) == [accepted |-> stage = "accepted", stage |-> stage, sig |-> sig]
Reject(stage) == Outcome(stage, NoSignature)

\* mutant: only void is refused
IsVoidOnly(returnType) == returnType = "void"

\* returnType === "void" || returnType === "unknown"
IsVoidOrUnknown(returnType) == returnType \in {"void", "unknown"}

\* mutant: the outer catch rethrows
OuterCatchRethrows(stage) == Outcome("escaped", NoSignature)

\* catch (error) { return null; } of the try around the whole body
OuterCatch(stage) == Reject(stage)

\* mutant: the second invocation is compared for every tuple
ChecksSensitivityAlways(paramTypes) == TRUE

\* if (paramTypes.length > 0) around the parameter-sensitivity check
ChecksSensitivity(paramTypes) == Len(paramTypes) > 0

\* mutant: a fault of the second invocation is swallowed where it happens
SecondCallThrowsNever(resultB) == FALSE

\* the second invocation (line 376) throws: control leaves the try block
SecondCallThrows(resultB) == resultB.fault

\* the owners and parameter tuples of the first invocation (line 353) and of
\* the second (line 375)
Invocations(className, paramTypes, isStatic) ==
    LET classConstructor ==
            CreateInstance(className, "A", DefaultKeep, <<"classConstructor", 0, 0>>)
    IN [classConstructor |-> classConstructor,
        target |-> IF isStatic THEN ConstructorOf(classConstructor)
                   ELSE classConstructor,
        paramsA |-> MakeParams(paramTypes, "A", "paramsA"),
        targetB |-> MakeTarget(className, isStatic, <<"instanceB", 0, 0>>),
        paramsB |-> MakeParams(paramTypes, "B", "paramsB")]

\* the checks of testMethod in order, on the results of its first and second
\* invocation (each evaluated only where the code makes the call)
Checks(className, methodName, paramTypes, isStatic, inputs, resultA, resultB) ==
    IF ~IsFunction(inputs.target, methodName) THEN Reject("notCallable")
    ELSE IF resultA.fault THEN OuterCatch("fault")
    ELSE IF IsFluentSelf(resultA.value, inputs.classConstructor)
         THEN Reject("fluent")
    ELSE IF IsVoidOrUnknown(GetTypeName(resultA.value))
         THEN Reject("voidOrUnknown")
    ELSE IF ChecksSensitivity(paramTypes) /\ SecondCallThrows(resultB)
         THEN OuterCatch("fault")
    ELSE IF ChecksSensitivity(paramTypes)
            /\ AreResultsEqual(resultA.value, resultB.value)
         THEN Reject("insensitive")
    ELSE IF \E i \in 1..Len(paramTypes) :
               SmallerTypeRejects(className, methodName, paramTypes, isStatic, i)
         THEN Reject("underSpecified")
    ELSE Outcome("accepted",
                 [className |-> className, methodName |-> methodName,
                  parameters |-> paramTypes,
                  returnType |-> GetTypeName(resultA.value),
                  isStatic |-> isStatic])

\* the two invocations, on the owners and parameters built for them
Calls(className, methodName, paramTypes, isStatic, inputs) ==
    Checks(className, methodName, paramTypes, isStatic, inputs,
           Invoke(inputs.target, methodName, inputs.paramsA, 1),
           Invoke(inputs.targetB, methodName, inputs.paramsB, 2))

TestMethod(className, methodName, paramTypes, isStatic) ==
    Calls(className, methodName, paramTypes, isStatic,
          Invocations(className, paramTypes, isStatic))

-----------------------------------------------------------------------------
(* generateParameterCombinations *)

\* mutant: a catalog type is missing from the generator's list
GenTypesWithoutBoolean ==
    <<"Vector2", "Vector3", "Vector4", "Quaternion", "Euler", "Matrix3",
      "Matrix4", "number">>

\* the generator's types array, in order
GenTypes == <<"Vector2", "Vector3", "Vector4", "Quaternion", "Euler",
              "Matrix3", "Matrix4", "number", "boolean">>

\* current[depth] = type on a JavaScript array (index is 1-based here)
SetAt(current, index, type) ==
    IF index <= Len(current) THEN [current EXCEPT ![index] = type]
    ELSE Append(current, type)

\* combine(current, depth) for one paramCount: the tuples it yields, in order.
\* The array current is shared by the recursive calls; an entry beyond depth
\* left by an earlier call is overwritten before the next yield, so each call
\* is given here the entries below depth only.
RECURSIVE Combine(_, _, _), CombineLoop(_, _, _, _)
Combine(current, depth, count) ==
    IF depth = count THEN <<current>>
    ELSE CombineLoop(current, depth, count, 1)
CombineLoop(current, depth, count, t) ==
    IF t > Len(GenTypes) THEN <<>>
    ELSE Combine(SetAt(current, depth + 1, GenTypes[t]), depth + 1, count)
         \o CombineLoop(current, depth, count, t + 1)

RECURSIVE CombinationsFrom(_, _)
CombinationsFrom(count, maxParams) ==
    IF count > maxParams THEN <<>>
    ELSE Combine(<<>>, 0, count) \o CombinationsFrom(count + 1, maxParams)

\* everything generateParameterCombinations(maxParams) yields, in order
GenerateParameterCombinations(maxParams) ==
    <<<<>>>> \o CombinationsFrom(1, maxParams)

\* The generator as the for...of loop drives it: its position is the tuple it
\* last yielded, and resuming it runs the nested loops to the next yield.
TypeIndex(type) == CHOOSE i \in 1..Len(GenTypes) : GenTypes[i] = type
LastType == GenTypes[Len(GenTypes)]

\* the tuple yielded after value: the innermost loop that is not at its last
\* type advances and the loops inside it restart; when all are at their last
\* type, combine returns and the next paramCount starts
NextTuple(value) ==
    IF \A i \in DOMAIN value : value[i] = LastType
    THEN [i \in 1..(Len(value) + 1) |-> GenTypes[1]]
    ELSE LET p == CHOOSE p \in DOMAIN value :
                     /\ value[p] # LastType
                     /\ \A q \in DOMAIN value : q > p => value[q] = LastType
         IN [i \in DOMAIN value |->
               IF i < p THEN value[i]
               ELSE IF i = p THEN GenTypes[TypeIndex(value[p]) + 1]
               ELSE GenTypes[1]]

\* a fresh generator, at its first yield: the empty tuple
GenStart == [value |-> <<>>, done |-> FALSE]

\* mutant: the generator starts over instead of returning
GenNextStartingOver(gen, maxParams) ==
    IF Len(NextTuple(gen.value)) > maxParams
    THEN [value |-> <<>>, done |-> FALSE]
    ELSE [value |-> NextTuple(gen.value), done |-> FALSE]

GenNext(gen, maxParams) ==
    IF Len(NextTuple(gen.value)) > maxParams
    THEN [value |-> <<>>, done |-> TRUE]
    ELSE [value |-> NextTuple(gen.value), done |-> FALSE]

-----------------------------------------------------------------------------
(* discoverMethods *)

SkipList == {"constructor", "toString", "toJSON", "valueOf", "hasOwnProperty",
             "isPrototypeOf", "propertyIsEnumerable", "toLocaleString", "get",
             "set", "forEach", "map", "reduce", "filter", "iterator", "clone",
             "copy", "copyFrom", "fromArray", "toArray"}

\* methodName.startsWith("_"), over the names of the target
StartsWithUnderscore(methodName) == methodName \in {"_onChange"}

\* mutant: the test of the '_' prefix is missing
ShouldSkipMethodListOnly(methodName) == methodName \in SkipList

ShouldSkipMethod(methodName) ==
    methodName \in SkipList \/ StartsWithUnderscore(methodName)

\* Object.getOwnPropertyNames of the prototype at the given level of the chain
OwnPropertyNames(level) ==
    SelectSeq(AllNames, LAMBDA n : n \in surface /\ level \in Registry(n).levels)

\* levels of the prototype chain of an instance, below Object.prototype
ProtoLevels == 2

\* mutant: the names are collected in an array, a name met at two levels of
\* the chain is kept twice
RECURSIVE AddNamesToArray(_, _, _)
AddNamesToArray(found, names, instance) ==
    IF names = <<>> THEN found
    ELSE LET name == Head(names)
             keep == IsFunction(instance, name) /\ ~ShouldSkipMethod(name)
         IN AddNamesToArray(IF keep THEN Append(found, name) ELSE found,
                            Tail(names), instance)

\* methods.add(name) for each qualifying name, on an insertion-ordered Set
RECURSIVE AddNames(_, _, _)
AddNames(found, names, instance) ==
    IF names = <<>> THEN found
    ELSE LET name == Head(names)
             keep == /\ IsFunction(instance, name)
                     /\ ~ShouldSkipMethod(name)
                     /\ name \notin RangeOf(found)
         IN AddNames(IF keep THEN Append(found, name) ELSE found,
                     Tail(names), instance)

RECURSIVE WalkChain(_, _, _)
WalkChain(found, level, instance) ==
    IF level > ProtoLevels THEN found
    ELSE WalkChain(AddNames(found, OwnPropertyNames(level), instance),
                   level + 1, instance)

DiscoverMethods(className, instance) == WalkChain(<<>>, 1, instance)

-----------------------------------------------------------------------------
(* generateDatabase *)

\* const types of generateDatabase: the owner types
Types == <<"Vector2", "Vector3", "Vector4", "Quaternion", "Euler",
           "Matrix3", "Matrix4">>

\* const maxParams
MaxParams == 3

\* the targets the script is run against
Surfaces == {{"length", "dot", "constructor"},
             {"fluentWithStatic", "sumArgs"},
             {"returnsThis", "clone", "_onChange", "isVector3", "element4",
              "staticSum", "constructor"},
             {"getW", "sumXY"},
             {"strictZ", "checkedNumber", "equals", "copy", "returnsObject",
              "returnsVoid"},
             {"secondArg", "length"},
             {}}

\* values new Date().toISOString() may take
Timestamps == {"t1", "t2"}

InitCommon ==
    /\ made = NoCall
    /\ compared = NoCall
    /\ call = NoCall
    /\ verdict = NoCall
    /\ classIdx = 1
    /\ methods = <<>>
    /\ methodIdx = 0
    /\ paramCount = 0
    /\ combo = GenStart
    /\ foundForThisCount = FALSE
    /\ foundValidSignature = FALSE
    /\ validCount = 0
    /\ allSignatures = <<>>
    /\ lastTests = <<>>
    /\ database = NoCall
    /\ firstRun = NoCall

Init ==
    /\ pc = "beginClass"
    /\ surface \in Surfaces
    /\ InitCommon

\* for (const className of types): createInstance, discoverMethods
BeginClass ==
    /\ pc = "beginClass"
    /\ classIdx <= Len(Types)
    /\ methods' = DiscoverMethods(Types[classIdx],
                     CreateInstance(Types[classIdx], "A", DefaultKeep,
                                    <<"instance", 0, 0>>))
    /\ methodIdx' = 1
    /\ pc' = "beginMethod"
    /\ UNCHANGED <<surface, harnessVars, classIdx, paramCount, combo,
                   foundForThisCount, foundValidSignature, validCount,
                   allSignatures, lastTests, database>>

\* for (const methodName of methods): the locals of one method
BeginMethod ==
    /\ pc = "beginMethod"
    /\ methodIdx <= Len(methods)
    /\ validCount' = 0
    /\ foundValidSignature' = FALSE
    /\ paramCount' = 0
    /\ pc' = "beginCount"
    /\ UNCHANGED <<surface, harnessVars, classIdx, methods, methodIdx, combo,
                   foundForThisCount, allSignatures, lastTests, database>>

\* the methods of the class are exhausted: next className
EndClass ==
    /\ pc = "beginMethod"
    /\ methodIdx > Len(methods)
    /\ classIdx' = classIdx + 1
    /\ pc' = "beginClass"
    /\ UNCHANGED <<surface, harnessVars, methods, methodIdx, paramCount,
                   combo, foundForThisCount, foundValidSignature, validCount,
                   allSignatures, lastTests, database>>

\* for (let paramCount = 0; paramCount <= maxParams; paramCount++): loop head
BeginCount ==
    /\ pc = "beginCount"
    /\ paramCount <= MaxParams
    /\ foundForThisCount' = FALSE
    /\ combo' = GenStart
    /\ pc' = "combos"
    /\ UNCHANGED <<surface, harnessVars, classIdx, methods, methodIdx,
                   paramCount, foundValidSignature, validCount, allSignatures,
                   lastTests, database>>

\* paramCount > maxParams: the loop ends without break, next methodName
EndMethod ==
    /\ pc = "beginCount"
    /\ paramCount > MaxParams
    /\ methodIdx' = methodIdx + 1
    /\ pc' = "beginMethod"
    /\ UNCHANGED <<surface, harnessVars, classIdx, methods, paramCount,
                   combo, foundForThisCount, foundValidSignature, validCount,
                   allSignatures, lastTests, database>>

\* the generator resumed until it is at a tuple of the wanted length, or has
\* returned: the iterations that only do continue.  The generator's outer
\* loop yields one length after the other, so from a shorter tuple the next
\* tuple of the wanted length is the first of that length, and from a longer
\* one there is none.
SkipOtherLengths(gen, count, maxParams) ==
    IF gen.done \/ Len(gen.value) = count THEN gen
    ELSE IF Len(gen.value) < count /\ count <= maxParams
    THEN [value |-> [i \in 1..count |-> GenTypes[1]], done |-> FALSE]
    ELSE [value |-> <<>>, done |-> TRUE]

\* if (paramTypes.length !== paramCount) continue; for the whole run of
\* consecutive tuples of another length, which changes nothing else
SkipCombination ==
    /\ pc = "combos"
    /\ ~combo.done
    /\ Len(combo.value) # paramCount
    /\ combo' = SkipOtherLengths(combo, paramCount, MaxParams)
    /\ UNCHANGED <<pc, surface, harnessVars, classIdx, methods, methodIdx,
                   paramCount, foundForThisCount, foundValidSignature,
                   validCount, allSignatures, lastTests, database>>

TestRecord(className, methodName, paramTypes, isStatic, outcome) ==
    [className |-> className, methodName |-> methodName,
     paramTypes |-> paramTypes, isStatic |-> isStatic,
     accepted |-> outcome.accepted, stage |-> outcome.stage]

\* mutant: only the first signature of an operation in a mode is recorded
PushOnlyFirst(signatures, outcome) ==
    IF /\ outcome.accepted
       /\ ~\E j \in DOMAIN signatures :
              /\ signatures[j].className = outcome.sig.className
              /\ signatures[j].methodName = outcome.sig.methodName
              /\ signatures[j].isStatic = outcome.sig.isStatic
    THEN Append(signatures, outcome.sig)
    ELSE signatures

\* mutant: the signature is put at the front of the list
PushFront(signatures, outcome) ==
    IF outcome.accepted THEN <<outcome.sig>> \o signatures ELSE signatures

\* allSignatures.push(sig) when testMethod returned a signature
Push(signatures, outcome) ==
    IF outcome.accepted THEN Append(signatures, outcome.sig) ELSE signatures

Count(outcome) == IF outcome.accepted THEN 1 ELSE 0

\* an exception left testMethod: nothing in generateDatabase catches it
Escaped(outcome) == outcome.stage = "escaped"

\* the static test's outcome as the iteration sees it: the test is not
\* reached when the instance test threw
StaticRun(instanceSig, staticSig) ==
    IF Escaped(instanceSig) THEN Reject("notTried") ELSE staticSig

\* the updates of one iteration, given what the instance test returned and,
\* when the static test is tried, what it returned
RecordTests(className, methodName, paramTypes, tryStatic, instanceSig, staticSig) ==
    /\ allSignatures' = Push(Push(allSignatures, instanceSig),
                             StaticRun(instanceSig, staticSig))
    /\ validCount' = validCount + Count(instanceSig)
                                + Count(StaticRun(instanceSig, staticSig))
    /\ foundForThisCount' =
          (foundForThisCount \/ instanceSig.accepted
                             \/ StaticRun(instanceSig, staticSig).accepted)
    /\ foundValidSignature' = (foundValidSignature \/ instanceSig.accepted)
    /\ lastTests' =
          <<TestRecord(className, methodName, paramTypes, FALSE, instanceSig)>>
          \o (IF tryStatic /\ ~Escaped(instanceSig)
              THEN <<TestRecord(className, methodName, Tail(paramTypes), TRUE,
                                staticSig)>>
              ELSE <<>>)
    /\ pc' = IF Escaped(instanceSig) \/ Escaped(staticSig) THEN "aborted" ELSE pc

\* mutant: the static test is tried for every non-empty tuple
TryStaticAlways(paramTypes, className) == Len(paramTypes) > 0

\* paramTypes.length > 0 && paramTypes[0] === className
TryStatic(paramTypes, className) ==
    Len(paramTypes) > 0 /\ paramTypes[1] = className

\* one tuple of the current length: the instance test, then the static test
\* when the first parameter type is the class ("notTried" otherwise)
TestCombination ==
    /\ pc = "combos"
    /\ ~combo.done
    /\ Len(combo.value) = paramCount
    /\ RecordTests(Types[classIdx], methods[methodIdx], combo.value,
                   TryStatic(combo.value, Types[classIdx]),
                   TestMethod(Types[classIdx], methods[methodIdx], combo.value,
                              FALSE),
                   IF TryStatic(combo.value, Types[classIdx])
                   THEN TestMethod(Types[classIdx], methods[methodIdx],
                                   Tail(combo.value), TRUE)
                   ELSE Reject("notTried"))
    /\ combo' = GenNext(combo, MaxParams)
    /\ UNCHANGED <<surface, harnessVars, classIdx, methods, methodIdx,
                   paramCount, database>>

\* mutant: the search never stops before maxParams
ShouldBreakNever(foundCount, foundValid) == FALSE

\* mutant: any signature found for the count stops the search
ShouldBreakOnAnyFind(foundCount, foundValid) == foundCount

\* if (foundForThisCount && foundValidSignature)
ShouldBreak(foundCount, foundValid) == foundCount /\ foundValid

\* the generator is exhausted and foundForThisCount && foundValidSignature: break
BreakCount ==
    /\ pc = "combos"
    /\ combo.done
    /\ ShouldBreak(foundForThisCount, foundValidSignature)
    /\ methodIdx' = methodIdx + 1
    /\ pc' = "beginMethod"
    /\ UNCHANGED <<surface, harnessVars, classIdx, methods, paramCount,
                   combo, foundForThisCount, foundValidSignature, validCount,
                   allSignatures, lastTests, database>>

\* the generator is exhausted and there is no break: paramCount++
NextCount ==
    /\ pc = "combos"
    /\ combo.done
    /\ ~ShouldBreak(foundForThisCount, foundValidSignature)
    /\ paramCount' = paramCount + 1
    /\ pc' = "beginCount"
    /\ UNCHANGED <<surface, harnessVars, classIdx, methods, methodIdx,
                   combo, foundForThisCount, foundValidSignature, validCount,
                   allSignatures, lastTests, database>>

\* the classes are exhausted: the database object is built
BuildDatabase ==
    /\ pc = "beginClass"
    /\ classIdx > Len(Types)
    /\ \E now \in Timestamps :
          database' = [version |-> "1.0.0", generatedAt |-> now,
                       source |-> "Runtime AB testing",
                       methods |-> allSignatures]
    /\ pc' = "finished"
    /\ UNCHANGED <<surface, harnessVars, classIdx, methods, methodIdx,
                   paramCount, combo, foundForThisCount, foundValidSignature,
                   validCount, allSignatures, lastTests>>

\* mutant: the list of an earlier run is kept (a module-level array)
KeptSignatures == allSignatures

\* const allSignatures: EquationSignature[] = [] of a new run
NewSignatures == <<>>

\* the script is run a second time against the same target: every local
\* starts afresh, and the database of the first run is remembered
Rerun ==
    /\ pc = "finished"
    /\ firstRun = NoCall
    /\ firstRun' = database
    /\ pc' = "beginClass"
    /\ classIdx' = 1
    /\ methods' = <<>>
    /\ methodIdx' = 0
    /\ paramCount' = 0
    /\ combo' = GenStart
    /\ foundForThisCount' = FALSE
    /\ foundValidSignature' = FALSE
    /\ validCount' = 0
    /\ allSignatures' = NewSignatures
    /\ lastTests' = <<>>
    /\ database' = NoCall
    /\ UNCHANGED <<surface, made, compared, call, verdict>>

Next ==
    \/ BeginClass
    \/ BeginMethod
    \/ EndClass
    \/ BeginCount
    \/ EndMethod
    \/ SkipCombination
    \/ TestCombination
    \/ BreakCount
    \/ NextCount
    \/ BuildDatabase
    \/ Rerun

Spec == Init /\ [][Next]_vars

\* the steps of a run other than the test of a tuple
LoopStep ==
    \/ BeginClass
    \/ BeginMethod
    \/ EndClass
    \/ BeginCount
    \/ EndMethod
    \/ SkipCombination
    \/ BreakCount
    \/ NextCount
    \/ BuildDatabase

\* what the test of a tuple does to the generator: the for...of loop resumes
\* it once the two awaited tests have returned (TestCombination restricted
\* to combo; testMethod returns for every input, so the two are enabled in
\* the same states)
ResumeGenerator ==
    /\ pc = "combos"
    /\ ~combo.done
    /\ Len(combo.value) = paramCount
    /\ combo' = GenNext(combo, MaxParams)

\* generateDatabase is one sequential async function whose awaits are on
\* tests that return: a step that can be taken is taken.  Running the script
\* again is the user's choice and is not forced.
SpecLive ==
    Init /\ [][Next]_vars /\ WF_vars(LoopStep) /\ WF_combo(ResumeGenerator)

-----------------------------------------------------------------------------
(* Factory harness: createInstance and areResultsEqual on drawn arguments *)

\* range of keepFirstNComponentsIdentical values drawn by the harness
MinKeep == 0 - 1
MaxKeep == 5
Keeps == MinKeep..MaxKeep

InitFactory ==
    /\ pc = "factory"
    /\ surface = {}
    /\ InitCommon

\* one call createInstance(type, variant, keep)
FactoryCreate ==
    /\ pc = "factory"
    /\ \E type \in ValueTypeNames, variant \in Variants, keep \in Keeps :
          made' = [type |-> type, variant |-> variant, keep |-> keep,
                   value |-> CreateInstance(type, variant, keep, <<"made", 0, 0>>)]
    /\ pc' = "done"
    /\ UNCHANGED <<surface, compared, call, verdict, firstRun, runVars>>

\* the two variants built with the same keep, handed to areResultsEqual
FactoryCompare ==
    /\ pc = "factory"
    /\ \E type \in ValueTypeNames, keep \in Keeps :
          LET a == CreateInstance(type, "A", keep, <<"made", 1, 0>>)
              b == CreateInstance(type, "B", keep, <<"made", 2, 0>>)
          IN compared' = [type |-> type, keep |-> keep, a |-> a, b |-> b,
                          equal |-> AreResultsEqual(a, b)]
    /\ pc' = "done"
    /\ UNCHANGED <<surface, made, call, verdict, firstRun, runVars>>

\* differences between two components, in ticks: none, just below and just
\* above the tolerance
Deltas == {0, Tol - 1, Tol + 1}

\* a value of the type and a second, separately allocated value that
\* differs from it by delta in component i only, handed to areResultsEqual
FactoryCompareNear ==
    /\ pc = "factory"
    /\ \E type \in ValueTypeNames \ {"boolean"}, delta \in Deltas :
          LET a == CreateInstance(type, "A", DefaultKeep, <<"made", 1, 0>>)
          IN \E i \in DOMAIN a.c :
                LET b == [kind |-> a.kind,
                          c |-> [a.c EXCEPT ![i] = @ + delta],
                          ref |-> IF IsPrimitive(a) THEN a.ref
                                  ELSE <<"made", 2, 0>>]
                IN /\ call' = [type |-> type, index |-> i, delta |-> delta,
                               a |-> a, b |-> b]
                   /\ verdict' = [equal |-> AreResultsEqual(a, b)]
    /\ pc' = "done"
    /\ UNCHANGED <<surface, made, compared, firstRun, runVars>>

NextFactory == FactoryCreate \/ FactoryCompare \/ FactoryCompareNear

SpecFactory == InitFactory /\ [][NextFactory]_vars

-----------------------------------------------------------------------------
(* testMethod harness: one call on drawn arguments *)

\* longest parameter tuple drawn by the harness
MaxArity == 2

TuplesOfLength(k) == [1..k -> ValueTypeNames]
TuplesUpTo(n) == UNION {TuplesOfLength(k) : k \in 0..n}

InitValidate ==
    /\ pc = "validate"
    /\ surface = RangeOf(AllNames)
    /\ InitCommon

Validate ==
    /\ pc = "validate"
    /\ \E className \in RangeOf(Types), methodName \in surface,
          paramTypes \in TuplesUpTo(MaxArity), isStatic \in BOOLEAN :
          /\ call' = [className |-> className, methodName |-> methodName,
                      paramTypes |-> paramTypes, isStatic |-> isStatic]
          /\ verdict' = TestMethod(className, methodName, paramTypes, isStatic)
          /\ made' = Invocations(className, paramTypes, isStatic)
    /\ pc' = "done"
    /\ UNCHANGED <<surface, compared, firstRun, runVars>>

NextValidate == Validate

SpecValidate == InitValidate /\ [][NextValidate]_vars

-----------------------------------------------------------------------------
(* discoverMethods harness: one call on a drawn target *)

\* the property names the drawn targets are made of
DiscoverNames == {"constructor", "equals", "toJSON", "clone", "copy",
                  "toArray", "_onChange", "isVector3", "length", "element4",
                  "dot", "staticSum"}

InitDiscover ==
    /\ pc = "discover"
    /\ surface \in SUBSET DiscoverNames
    /\ InitCommon

\* discoverMethods(className, createInstance(className))
Discover ==
    /\ pc = "discover"
    /\ \E idx \in DOMAIN Types :
          /\ classIdx' = idx
          /\ methods' = DiscoverMethods(Types[idx],
                            CreateInstance(Types[idx], "A", DefaultKeep,
                                           <<"instance", 0, 0>>))
    /\ pc' = "done"
    /\ UNCHANGED <<surface, harnessVars, methodIdx, paramCount, combo,
                   foundForThisCount, foundValidSignature, validCount,
                   allSignatures, lastTests, database>>

NextDiscover == Discover

SpecDiscover == InitDiscover /\ [][NextDiscover]_vars

-----------------------------------------------------------------------------
(* Generator harness: generateParameterCombinations(maxParams) consumed by *)
(* a for...of loop, one yield per step *)

\* largest maxParams drawn by the harness
MaxGenParams == 3

InitGenerate ==
    /\ pc = "generate"
    /\ surface = {}
    /\ InitCommon

\* the call: the generator object is created, nothing has run yet
GenerateCall ==
    /\ pc = "generate"
    /\ \E maxParams \in 0..MaxGenParams :
          call' = [type |-> "generate", maxParams |-> maxParams]
    /\ verdict' = [yielded |-> <<>>]
    /\ combo' = GenStart
    /\ pc' = "generating"
    /\ UNCHANGED <<surface, made, compared, firstRun, classIdx, methods,
                   methodIdx, paramCount, foundForThisCount,
                   foundValidSignature, validCount, allSignatures, lastTests,
                   database>>

\* the loop takes the tuple the generator is at and resumes it
GenerateYield ==
    /\ pc = "generating"
    /\ ~combo.done
    /\ verdict' = [yielded |-> Append(verdict.yielded, combo.value)]
    /\ combo' = GenNext(combo, call.maxParams)
    /\ UNCHANGED <<pc, surface, made, compared, call, firstRun, classIdx,
                   methods, methodIdx, paramCount, foundForThisCount,
                   foundValidSignature, validCount, allSignatures, lastTests,
                   database>>

\* the generator has returned
GenerateReturn ==
    /\ pc = "generating"
    /\ combo.done
    /\ pc' = "done"
    /\ UNCHANGED <<surface, harnessVars, runVars>>

NextGenerate == GenerateCall \/ GenerateYield \/ GenerateReturn

SpecGenerate == InitGenerate /\ [][NextGenerate]_vars

-----------------------------------------------------------------------------
(* Properties of testMethod, checked under SpecValidate *)

Validated == pc = "done" /\ call # NoCall

\* the owner the first invocation of a call is made on
FirstTarget(c) == MakeTarget(c.className, c.isStatic, <<"classConstructor", 0, 0>>)
\* the behaviour the call resolves to
CallBehaviour(c) == Lookup(FirstTarget(c), c.methodName)
\* what the first (variant A) invocation of a call does
FirstResult(c) ==
    Invoke(FirstTarget(c), c.methodName, MakeParams(c.paramTypes, "A", "paramsA"), 1)

ReturnsItsTarget(c) ==
    /\ IsFunction(FirstTarget(c), c.methodName)
    /\ ~FirstResult(c).fault
    /\ StrictEquals(FirstResult(c).value, FirstTarget(c))

\* C1: whenever the first (variant A) invocation returns the very object it
\* was invoked on, testMethod returns null, whatever the owner type, the mode
\* and the arity (0 included); on an instance the rejection is the fluent
\* check's.
C1_FluentRejected ==
    (Validated /\ ReturnsItsTarget(call)) =>
        /\ ~verdict.accepted
        /\ verdict.sig = NoSignature
        /\ (~call.isStatic => verdict.stage = "fluent")

C1_Witness ==
    /\ Validated
    /\ call.methodName = "returnsThis"
    /\ ~call.isStatic
    /\ Len(call.paramTypes) = 2
    /\ ReturnsItsTarget(call)
    /\ verdict.stage = "fluent"

\* C2 as stated: an operation that ignores its parameters and returns the
\* same constant of a catalog type on every call is rejected at the
\* parameter-sensitivity check for every non-empty tuple.
C2_ConstantRejected ==
    (/\ Validated
     /\ Len(call.paramTypes) >= 1
     /\ CallBehaviour(call).kind = "const"
     /\ CallBehaviour(call).ret \in ValueTypeNames)
        => verdict.stage = "insensitive"

ReadsOnly(c, components) ==
    /\ CallBehaviour(c).kind = "reads"
    /\ CallBehaviour(c).mask # {}
    /\ CallBehaviour(c).mask \subseteq components

\* C3: for the tuple [Vector3], an operation that reads only x and y of its
\* argument is rejected at the smaller-type check: the Vector2-substituted
\* calls succeed and give results judged different.
C3_UnderSpecifiedRejected ==
    (/\ Validated
     /\ call.paramTypes = <<"Vector3">>
     /\ ReadsOnly(call, {1, 2}))
        => /\ verdict.stage = "underSpecified"
           /\ SmallerTypeRejects(call.className, call.methodName,
                                 call.paramTypes, call.isStatic, 1)

C3_Witness ==
    /\ Validated
    /\ call.paramTypes = <<"Vector3">>
    /\ call.methodName = "sumXY"
    /\ call.className = "Vector3"
    /\ verdict.stage = "underSpecified"

\* C4 as stated: Vector3.dot with the tuple [Vector3] is accepted with return
\* type number.
C4_DotAccepted ==
    (/\ Validated
     /\ call.className = "Vector3"
     /\ call.methodName = "dot"
     /\ call.paramTypes = <<"Vector3">>
     /\ ~call.isStatic)
        => /\ verdict.accepted
           /\ verdict.sig.returnType = "number"

\* C6 as stated: for the tuples [Quaternion] and [Vector4], an operation that
\* reads only x, y, z of its argument is rejected at the parameter-sensitivity
\* check.
C6_XyzOnlyInsensitive ==
    (/\ Validated
     /\ call.paramTypes \in {<<"Quaternion">>, <<"Vector4">>}
     /\ ReadsOnly(call, {1, 2, 3}))
        => verdict.stage = "insensitive"

ReadsW(c) ==
    /\ CallBehaviour(c).kind \in {"reads", "gets"}
    /\ 4 \in CallBehaviour(c).mask

\* C7: for the tuple [Quaternion], an operation whose result depends on w is
\* not rejected at the parameter-sensitivity check (nor before it): the
\* variant A and variant B results are judged different.
C7_WSensitive ==
    (/\ Validated
     /\ call.paramTypes = <<"Quaternion">>
     /\ ReadsW(call))
        => verdict.stage \in {"underSpecified", "accepted"}

C7_Witness ==
    /\ Validated
    /\ call.paramTypes = <<"Quaternion">>
    /\ call.methodName = "getW"
    /\ ReadsW(call)
    /\ verdict.accepted

-----------------------------------------------------------------------------
(* Properties of generateDatabase, checked under Spec *)

SameOperation(sig, test) ==
    /\ sig.className = test.className
    /\ sig.methodName = test.methodName
    /\ sig.isStatic = test.isStatic

\* C5 as stated: once a signature of arity k is accepted in a mode, no
\* candidate of greater arity of the same operation, owner and mode is tested.
C5_ArityPruning ==
    \A t \in DOMAIN lastTests : \A k \in DOMAIN allSignatures :
        SameOperation(allSignatures[k], lastTests[t])
            => Len(lastTests[t].paramTypes) <= Len(allSignatures[k].parameters)

-----------------------------------------------------------------------------
(* Properties of createInstance, checked under SpecFactory *)

Created == pc = "done" /\ made # NoCall
Compared == pc = "done" /\ compared # NoCall

\* the literal of the requested variant
VariantValues(type, variant) ==
    IF variant = "A" THEN BaseValues(type) ELSE AltValues(type)

\* C8 as stated: with sharedPrefix k >= 1, every type of more than one
\* component has the A baseline below index k and the variant's baseline from
\* index k on.
C8_SharedPrefixRule ==
    (Created /\ made.keep >= 1 /\ GetTypeComponentCount(made.type) > 1) =>
        \A i \in DOMAIN made.value.c :
            made.value.c[i] = IF i - 1 < made.keep
                              THEN BaseValues(made.type)[i]
                              ELSE VariantValues(made.type, made.variant)[i]

AgreeOnFirstThree(a, b) == \A i \in 1..3 : a.c[i] = b.c[i]

\* C9 as stated: without an explicit sharedPrefix, the variants of Quaternion
\* and of Vector4 agree on the first three components and differ in the 4th.
C9_DefaultPrefixBoth ==
    (Compared /\ compared.type \in {"Quaternion", "Vector4"}
              /\ compared.keep = DefaultKeep) =>
        /\ AgreeOnFirstThree(compared.a, compared.b)
        /\ compared.a.c[4] # compared.b.c[4]

\* C9 amended: without an explicit sharedPrefix the Quaternion variants agree
\* on the first three components and differ in the 4th; the Vector4 variants
\* do so when sharedPrefix = 3 is passed (what getKeepFirstN gives), and
\* without it they differ in all four components.
C9_DefaultPrefixQuaternion ==
    Compared =>
        /\ (compared.type = "Quaternion" /\ compared.keep = DefaultKeep) =>
              /\ AgreeOnFirstThree(compared.a, compared.b)
              /\ compared.a.c[4] # compared.b.c[4]
        /\ (compared.type = "Vector4" /\ compared.keep = GetKeepFirstN("Vector4")) =>
              /\ AgreeOnFirstThree(compared.a, compared.b)
              /\ compared.a.c[4] # compared.b.c[4]
        /\ (compared.type = "Vector4" /\ compared.keep = DefaultKeep) =>
              \A i \in 1..4 : compared.a.c[i] # compared.b.c[i]

C9_Witness ==
    /\ Compared
    /\ compared.type = "Quaternion"
    /\ compared.keep = DefaultKeep
    /\ AgreeOnFirstThree(compared.a, compared.b)
    /\ compared.a.c[4] # compared.b.c[4]

\* C10: for each of the nine types, the default variant A and variant B
\* instances differ in some component by more than the tolerance, and
\* areResultsEqual does not judge them equal.
C10_NonDegenerate ==
    (Compared /\ compared.keep = DefaultKeep) =>
        /\ \E i \in DOMAIN compared.a.c :
              Greater(MathAbs(Sub(compared.a.c[i], compared.b.c[i])), Tol)
        /\ ~compared.equal

C10_Witness ==
    /\ Compared
    /\ compared.type = "Matrix4"
    /\ compared.keep = DefaultKeep
    /\ ~compared.equal

-----------------------------------------------------------------------------
(* Properties of two runs of the script, checked under Spec *)

\* the multiset of the elements of a sequence
BagOf(seq) ==
    [x \in RangeOf(seq) |-> Cardinality({i \in DOMAIN seq : seq[i] = x})]

SecondRunFinished == pc = "finished" /\ firstRun # NoCall

-----------------------------------------------------------------------------
(* Properties of discoverMethods, checked under SpecDiscover *)

Discovered == pc = "done" /\ call = NoCall /\ made = NoCall /\ compared = NoCall

\* the operation names the claim lists by name
NamedInClaim == {"constructor", "equals", "toJSON", "toString", "clone",
                 "copy", "fromArray", "toArray"}

-----------------------------------------------------------------------------
(* Properties of generateParameterCombinations, checked under SpecGenerate *)

Generated == pc = "done" /\ call # NoCall

RECURSIVE Power(_, _)
Power(base, k) == IF k = 0 THEN 1 ELSE base * Power(base, k - 1)

\* C13: for every maxParams N >= 0 the generator yields every ordered tuple
\* of the nine catalog types of each length 0..N exactly once (9^k tuples of
\* length k), no other tuple, in non-decreasing order of length and starting
\* with the empty tuple.
C13_GeneratorComplete ==
    Generated =>
        /\ verdict.yielded[1] = <<>>
        /\ \A i \in 2..Len(verdict.yielded) :
              Len(verdict.yielded[i - 1]) <= Len(verdict.yielded[i])
        /\ RangeOf(verdict.yielded) = TuplesUpTo(call.maxParams)
        /\ Cardinality(RangeOf(verdict.yielded)) = Len(verdict.yielded)
        /\ \A k \in 0..call.maxParams :
              Cardinality({i \in DOMAIN verdict.yielded :
                              Len(verdict.yielded[i]) = k})
                  = Power(Cardinality(ValueTypeNames), k)

C13_Witness ==
    /\ Generated
    /\ call.maxParams = MaxParams
    /\ Len(verdict.yielded) = 1 + 9 + 81 + 729
    /\ verdict.yielded = GenerateParameterCombinations(MaxParams)

-----------------------------------------------------------------------------
(* Properties of the faults of testMethod, checked under Spec *)

ReturnSites == {"notCallable", "fault", "fluent", "voidOrUnknown",
                "insensitive", "underSpecified", "accepted"}

\* C14: testMethod never lets a fault escape: whether the operation is
\* missing, not callable, or an invocation faults, every call made by
\* generateDatabase returns a signature or null from one of testMethod's
\* return statements; generateDatabase is never aborted, and whatever the
\* outcome of a tuple the next step is in the same loop, the generator
\* resumed for the next tuple.
C14_FaultsStayLocal ==
    /\ [](/\ pc # "aborted"
          /\ \A t \in DOMAIN lastTests :
                /\ lastTests[t].stage \in ReturnSites
                /\ lastTests[t].accepted = (lastTests[t].stage = "accepted"))
    /\ [][(pc = "combos" /\ ~combo.done) =>
             /\ pc' = "combos"
             /\ Len(combo.value) = paramCount =>
                   combo' = GenNext(combo, MaxParams)]_vars

\* a call faulted in its variant B invocation after earlier tuples were
\* accepted, and the run is at the next tuple
C14_Witness ==
    /\ pc = "combos"
    /\ Len(lastTests) = 1
    /\ lastTests[1].methodName = "checkedNumber"
    /\ lastTests[1].paramTypes = <<"number">>
    /\ lastTests[1].stage = "fault"
    /\ combo = [value |-> <<"boolean">>, done |-> FALSE]
    /\ allSignatures # <<>>

-----------------------------------------------------------------------------
(* Properties of testMethod on tuples of two parameters, under SpecValidate *)

\* the operation computes its result from its first argument (and possibly
\* its owner) and never looks at a second one
ReadsFirstArgumentOnly(c) ==
    CallBehaviour(c).kind \in {"reads", "gets", "dot", "element",
                               "strictReads", "limited", "equals"}

\* C15 as stated: for every tuple of arity >= 2, an operation whose result
\* depends on its first parameter and that ignores another declared
\* parameter is rejected, whatever the type of the ignored parameter.
C15_IgnoredParameterRejected ==
    (/\ Validated
     /\ Len(call.paramTypes) >= 2
     /\ ReadsFirstArgumentOnly(call))
        => ~verdict.accepted

-----------------------------------------------------------------------------
(* Properties of areResultsEqual, checked under SpecFactory *)

ComparedNear == pc = "done" /\ call # NoCall

\* C16 as stated: two results of the same catalog type, distinct objects
\* included, are judged equal exactly when all their corresponding
\* components are within the tolerance, for each of number, Vector2,
\* Vector3, Vector4, Quaternion, Euler, Matrix3 and Matrix4.
C16_EqualWithinTolerance ==
    ComparedNear => (verdict.equal <=> call.delta < Tol)

-----------------------------------------------------------------------------
(* Properties of the inputs of testMethod's invocations, under SpecValidate *)

\* the components of the instance createInstance(type, variant, keep) gives
ComponentsOf(type, variant, keep) ==
    CreateInstance(type, variant, keep, <<"probe", 0, 0>>).c

ParamsAreVariant(params, paramTypes, variant) ==
    \A i \in DOMAIN paramTypes :
        params[i].c = ComponentsOf(paramTypes[i], variant,
                                   GetKeepFirstN(paramTypes[i]))

SecondInvocationTried ==
    /\ Validated
    /\ ~call.isStatic
    /\ Len(call.paramTypes) > 0

-----------------------------------------------------------------------------
(* Properties of the recorded signatures, checked under Spec *)

\* the call a signature was accepted for
CallOf(sig) ==
    [className |-> sig.className, methodName |-> sig.methodName,
     paramTypes |-> sig.parameters, isStatic |-> sig.isStatic]

ReturnTypeSound(sig) ==
    /\ sig.returnType \in ValueTypeNames
    /\ sig.returnType = GetTypeName(FirstResult(CallOf(sig)).value)

\* C18: every recorded signature, and every signature of the database, has
\* a returnType that is one of the nine catalog types and is the
\* classification getTypeName gives the value the variant A invocation
\* returns; none is void or unknown.  While the run goes on the signatures
\* of the latest iteration (at most two) are examined, the list only growing
\* at its end; the whole list is examined in the database.
C18_ReturnTypes ==
    /\ \A k \in DOMAIN allSignatures :
          k >= Len(allSignatures) - 1 => ReturnTypeSound(allSignatures[k])
    /\ pc = "finished" =>
          \A k \in DOMAIN database.methods : ReturnTypeSound(database.methods[k])

\* the target has operations returning undefined and an object of no catalog
\* class, and the database holds boolean and number signatures only
C18_Witness ==
    /\ pc = "finished"
    /\ {"returnsVoid", "returnsObject", "equals"} \subseteq surface
    /\ {database.methods[k].returnType : k \in DOMAIN database.methods}
          = {"boolean", "number"}
    /\ \A k \in DOMAIN database.methods :
          database.methods[k].methodName \notin {"returnsVoid", "returnsObject"}

-----------------------------------------------------------------------------
(* Properties of the static tests of generateDatabase, checked under Spec *)

\* C19: in every iteration the first test is the instance test of the
\* generated tuple; a static test is made only after it, only when the tuple
\* is not empty and its first type is the owner type, and on the tuple
\* without its first type; every static signature from the run has at most
\* maxParams - 1 parameters.
C19_StaticGating ==
    /\ lastTests # <<>> =>
          /\ ~lastTests[1].isStatic
          /\ Len(lastTests) <= 2
          /\ Len(lastTests) = 2 =>
                /\ lastTests[2].isStatic
                /\ lastTests[2].className = lastTests[1].className
                /\ lastTests[2].methodName = lastTests[1].methodName
                /\ Len(lastTests[1].paramTypes) >= 1
                /\ lastTests[1].paramTypes[1] = lastTests[1].className
                /\ lastTests[2].paramTypes = Tail(lastTests[1].paramTypes)
    /\ \A k \in DOMAIN allSignatures :
          allSignatures[k].isStatic =>
              Len(allSignatures[k].parameters) <= MaxParams - 1
    /\ pc = "finished" =>
          \A k \in DOMAIN database.methods :
              database.methods[k].isStatic =>
                  Len(database.methods[k].parameters) <= MaxParams - 1

\* a static signature of maxParams - 1 parameters, accepted from a tuple of
\* maxParams types led by the owner type
C19_Witness ==
    /\ Len(lastTests) = 2
    /\ Len(lastTests[1].paramTypes) = MaxParams
    /\ lastTests[1].paramTypes[1] = lastTests[1].className
    /\ lastTests[2].accepted
    /\ allSignatures[Len(allSignatures)].isStatic
    /\ Len(allSignatures[Len(allSignatures)].parameters) = MaxParams - 1

-----------------------------------------------------------------------------
(* Properties of the assembled database, checked under Spec *)

\* the tests of the latest iteration that testMethod accepted, in call order
AcceptedOf(tests) == SelectSeq(tests, LAMBDA t : t.accepted)

\* sig is the signature accepted for the test
SignatureOfTest(sig, test) ==
    /\ sig.className = test.className
    /\ sig.methodName = test.methodName
    /\ sig.parameters = test.paramTypes
    /\ sig.isStatic = test.isStatic

\* after: before followed by the signatures of the accepted tests, in order
ExtendedBy(before, after, tests) ==
    /\ Len(after) = Len(before) + Len(AcceptedOf(tests))
    /\ SubSeq(after, 1, Len(before)) = before
    /\ \A j \in DOMAIN AcceptedOf(tests) :
          SignatureOfTest(after[Len(before) + j], AcceptedOf(tests)[j])

\* C20: each iteration appends to allSignatures exactly the signatures
\* testMethod accepted in it, in call order, and no other step of a run
\* changes the list; the database is built with version, generatedAt, source
\* and that list as methods, also when the list is empty.
C20_AssemblerOrder ==
    /\ [][IF pc = "combos" /\ lastTests' # lastTests
          THEN ExtendedBy(allSignatures, allSignatures', lastTests')
          ELSE pc # "finished" => allSignatures' = allSignatures]_vars
    /\ [](pc = "finished" =>
            /\ DOMAIN database = {"version", "generatedAt", "source", "methods"}
            /\ database.version = "1.0.0"
            /\ database.source = "Runtime AB testing"
            /\ database.generatedAt \in Timestamps
            /\ database.methods = allSignatures
            /\ (surface = {} => database.methods = <<>>))

\* a database holding instance and static signatures of several classes
C20_Witness ==
    /\ pc = "finished"
    /\ Len(database.methods) >= 3
    /\ \E j, k \in DOMAIN database.methods :
          /\ j < k
          /\ ~database.methods[j].isStatic
          /\ database.methods[k].isStatic
          /\ database.methods[j].className # database.methods[k].className

-----------------------------------------------------------------------------
(* Properties of the set of recorded signatures, checked under Spec *)

\* same owner type, operation name, parameter list and static flag
SameKey(s1, s2) ==
    /\ s1.className = s2.className
    /\ s1.methodName = s2.methodName
    /\ s1.parameters = s2.parameters
    /\ s1.isStatic = s2.isStatic

NoTwoAlike(signatures) ==
    \A j, k \in DOMAIN signatures : j < k => ~SameKey(signatures[j], signatures[k])

\* C21: no two recorded signatures have the same owner type, operation
\* name, parameter list and static flag.  During the run the signatures of
\* the latest iteration (at most two) are compared with all the others, the
\* list only growing at its end; the database is compared pair by pair.
C21_NoDuplicates ==
    /\ \A j, k \in DOMAIN allSignatures :
          (j < k /\ k >= Len(allSignatures) - 1)
              => ~SameKey(allSignatures[j], allSignatures[k])
    /\ pc = "finished" => NoTwoAlike(database.methods)

\* an operation defined at both levels of the chain, enumerated once, with
\* one signature per class in the database
C21_Witness ==
    /\ pc = "finished"
    /\ "length" \in surface
    /\ Registry("length").levels = {1, 2}
    /\ Cardinality({k \in DOMAIN database.methods :
                       database.methods[k].methodName = "length"}) = Len(Types)
    /\ NoTwoAlike(database.methods)

-----------------------------------------------------------------------------
(* Properties of the objects handed to the invocations, checked under
   SpecValidate *)

\* the objects (by identity) among a sequence of values; primitives are
\* passed by value and have no identity
RefsOf(values) ==
    {values[k].ref : k \in {j \in DOMAIN values : ~IsPrimitive(values[j])}}

\* one invocation: where it is made, its owner, and the objects it is handed
Invocation(site, owner, args) ==
    [site |-> site, owner |-> owner, argRefs |-> RefsOf(args),
     refs |-> RefsOf(<<owner>> \o args)]

\* the two substituted invocations at position i
SmallerPair(i, inputs) ==
    {Invocation(<<"smallerA", i>>, inputs.targetSmallerA, inputs.paramsSmallerA),
     Invocation(<<"smallerB", i>>, inputs.targetSmallerB, inputs.paramsSmallerB)}

\* every invocation one call of testMethod can make: the first, the second
\* (arity > 0), and the two substituted ones of each position that has a
\* smaller type
InvocationsOf(c, inputs) ==
    {Invocation(<<"A", 0>>, inputs.target, inputs.paramsA)}
    \cup (IF Len(c.paramTypes) > 0
          THEN {Invocation(<<"B", 0>>, inputs.targetB, inputs.paramsB)}
          ELSE {})
    \cup UNION {SmallerPair(i, SmallerInvocations(c.className, c.paramTypes,
                                                  c.isStatic, i)) :
                   i \in {j \in 1..Len(c.paramTypes) :
                             GetSmallerType(c.paramTypes[j]) # "none"}}

\* C22 as stated: no object, owner or argument, is handed to two different
\* invocations of one testMethod call.
C22_NoSharedObject ==
    Validated =>
        \A p, q \in InvocationsOf(call, made) :
            p.site # q.site => p.refs \cap q.refs = {}

\* C22: no argument object of one invocation is handed to another
\* invocation; in instance mode no owner is shared either, each being a
\* fresh instance, while in static mode every invocation is made on the one
\* class object that the fresh instances share as their constructor.
C22_NoSharedInstance ==
    Validated =>
        \A p, q \in InvocationsOf(call, made) :
            p.site # q.site =>
                /\ p.argRefs \cap q.refs = {}
                /\ call.isStatic = StrictEquals(p.owner, q.owner)

\* an instance-mode call with two parameters that both have a smaller
\* type: six invocations, validation having gone past the second one
C22_Witness ==
    /\ Validated
    /\ ~call.isStatic
    /\ call.paramTypes = <<"Vector3", "Vector4">>
    /\ verdict.stage \in {"underSpecified", "accepted"}
    /\ Cardinality(InvocationsOf(call, made)) = 6
    /\ Cardinality(UNION {p.refs : p \in InvocationsOf(call, made)}) = 18

-----------------------------------------------------------------------------
(* Termination of generateDatabase, checked under SpecLive *)

\* position of a tuple among the tuples of its length, in generator order
RECURSIVE TupleIndex(_)
TupleIndex(value) ==
    IF value = <<>> THEN 0
    ELSE TupleIndex(SubSeq(value, 1, Len(value) - 1)) * Len(GenTypes)
         + (TypeIndex(value[Len(value)]) - 1)

\* how far the nested loops of a run have got: class, method, parameter
\* count, tuple, outermost first
Progress ==
    <<classIdx,
      CASE pc = "beginClass" -> 0 [] pc = "finished" -> 2 [] OTHER -> 1,
      methodIdx,
      IF pc = "beginMethod" THEN 0 ELSE 1,
      paramCount,
      IF pc = "beginCount" THEN 0 ELSE 1,
      IF combo.done THEN MaxParams + 1 ELSE Len(combo.value),
      TupleIndex(combo.value)>>

\* lexicographic order on sequences of the same length
RECURSIVE LexLess(_, _)
LexLess(a, b) ==
    IF a = <<>> THEN FALSE
    ELSE \/ Head(a) < Head(b)
         \/ Head(a) = Head(b) /\ LexLess(Tail(a), Tail(b))

\* C23: a run of generateDatabase eventually finishes, and every step of it
\* moves the nested loops forward: within one operation of one owner type
\* the parameter count only grows and, within one count, each tested tuple
\* comes later in generator order than the one before, so no tuple of length
\* 0..maxParams is validated twice.
C23_Terminates ==
    /\ (pc # "finished") ~> (pc = "finished")
    /\ [][Rerun \/ LexLess(Progress, Progress')]_vars
    /\ [](pc = "combos" /\ ~combo.done => Len(combo.value) <= MaxParams)

\* a second run has finished as well, on a target with an operation that is
\* never accepted and so is searched up to the largest parameter count
C23_Witness ==
    /\ pc = "finished"
    /\ firstRun # NoCall
    /\ "returnsVoid" \in surface
    /\ Len(database.methods) > 0

-----------------------------------------------------------------------------
(* Properties of the later checks of testMethod, checked under SpecValidate *)

\* validation got as far as the smaller-type loop
ReachedSmallerLoop == Validated /\ verdict.stage \in {"underSpecified", "accepted"}

\* the positions of the call's tuple whose type has a smaller type
ProbedPositions(c) ==
    {i \in 1..Len(c.paramTypes) : GetSmallerType(c.paramTypes[i]) # "none"}

\* what the two substituted invocations at position i return
ProbeResults(c, i) ==
    SmallerResults(c.methodName, i,
                   SmallerInvocations(c.className, c.paramTypes, c.isStatic, i))

\* both calls succeeded and their results are judged different
SucceedAndDiffer(results) ==
    /\ ~results.a.fault
    /\ ~results.b.fault
    /\ ~AreResultsEqual(results.a.value, results.b.value)

\* both substituted calls at position i succeed and their results are
\* judged different
ProbeSucceedsAndDiffers(c, i) == SucceedAndDiffer(ProbeResults(c, i))

\* the substituted tuple differs from the declared one at position i only
SubstitutedAtOnly(c, i, args) ==
    \A idx \in 1..Len(c.paramTypes) :
        args[idx].kind = IF idx = i THEN GetSmallerType(c.paramTypes[i])
                         ELSE c.paramTypes[idx]

\* both substituted tuples of position i
BothSubstitutedAtOnly(c, i, inputs) ==
    /\ SubstitutedAtOnly(c, i, inputs.paramsSmallerA)
    /\ SubstitutedAtOnly(c, i, inputs.paramsSmallerB)

\* C24: a candidate that reaches the smaller-type loop is rejected there
\* exactly when, at some position whose type has a smaller type, both
\* substituted calls succeed with results judged different; the substituted
\* tuples carry the smaller type at the probed position only.
C24_UnderSpecificationRule ==
    ReachedSmallerLoop =>
        /\ (verdict.stage = "underSpecified")
              = (\E i \in ProbedPositions(call) : ProbeSucceedsAndDiffers(call, i))
        /\ \A i \in ProbedPositions(call) :
              BothSubstitutedAtOnly(call, i,
                  SmallerInvocations(call.className, call.paramTypes,
                                     call.isStatic, i))

\* a candidate accepted although one probed position faults and a position
\* without a smaller type stands beside it
C24_Witness ==
    /\ Validated
    /\ call.methodName = "strictZ"
    /\ call.paramTypes = <<"Vector3", "number">>
    /\ ProbedPositions(call) = {1}
    /\ ProbeResults(call, 1).a.fault
    /\ verdict.stage = "accepted"

\* what the second (variant B) invocation of the validated call returns
SecondResult == Invoke(made.targetB, call.methodName, made.paramsB, 2)

\* C25: for the empty tuple a candidate is accepted exactly when the
\* operation is callable, its one invocation does not fault, the result
\* classifies to a catalog type and is not the owner instance; it is never
\* rejected by the parameter-sensitivity or the smaller-type check.  A
\* non-empty tuple is never accepted without a second invocation that
\* succeeds with a result judged different.
C25_ZeroArityAcceptance ==
    Validated =>
        /\ call.paramTypes = <<>> =>
              /\ verdict.accepted
                    = (/\ IsFunction(made.target, call.methodName)
                       /\ ~FirstResult(call).fault
                       /\ GetTypeName(FirstResult(call).value) \in ValueTypeNames
                       /\ ~StrictEquals(FirstResult(call).value,
                                        made.classConstructor))
              /\ verdict.stage \notin {"insensitive", "underSpecified"}
        /\ (call.paramTypes # <<>> /\ verdict.accepted) =>
              /\ ~SecondResult.fault
              /\ ~AreResultsEqual(FirstResult(call).value, SecondResult.value)

\* an operation that reads its owner only, accepted with no parameter
C25_Witness ==
    /\ Validated
    /\ call.paramTypes = <<>>
    /\ call.methodName = "length"
    /\ ~call.isStatic
    /\ verdict.accepted
    /\ verdict.sig.returnType = "number"

\* the first invocation succeeds with a catalog-typed result that is not
\* the owner instance
FirstCallPasses ==
    /\ IsFunction(made.target, call.methodName)
    /\ ~FirstResult(call).fault
    /\ GetTypeName(FirstResult(call).value) \in ValueTypeNames
    /\ ~StrictEquals(FirstResult(call).value, made.classConstructor)

\* C29: a candidate of arity >= 1 whose first invocation passes and whose
\* second invocation faults is rejected, at the outer catch.
C29_FaultInVariantB ==
    (/\ Validated
     /\ Len(call.paramTypes) >= 1
     /\ FirstCallPasses
     /\ SecondResult.fault)
        => /\ ~verdict.accepted
           /\ verdict.stage = "fault"
           /\ verdict.sig = NoSignature

\* a range-checked operation: variant A's number is within the range,
\* variant B's is not
C29_Witness ==
    /\ Validated
    /\ call.methodName = "checkedNumber"
    /\ call.paramTypes = <<"number">>
    /\ ~call.isStatic
    /\ FirstCallPasses
    /\ SecondResult.fault
    /\ verdict.stage = "fault"

-----------------------------------------------------------------------------
(* Properties of the Quaternion case of createInstance, checked under
   SpecFactory *)

\* C30: for Quaternion, a keepFirstNComponentsIdentical of 0 or less gives
\* the same two variants as 3; for every value the two variants have the
\* same first component, so they never differ in all four components.
C30_QuaternionPrefixFloor ==
    (Compared /\ compared.type = "Quaternion") =>
        /\ compared.keep <= 0 =>
              /\ compared.a.c = CreateInstance("Quaternion", "A", 3, compared.a.ref).c
              /\ compared.b.c = CreateInstance("Quaternion", "B", 3, compared.b.ref).c
              /\ AgreeOnFirstThree(compared.a, compared.b)
              /\ compared.a.c[4] # compared.b.c[4]
        /\ compared.a.c[1] = compared.b.c[1]
        /\ ~(\A i \in 1..4 : compared.a.c[i] # compared.b.c[i])

\* the two Quaternion variants built with a negative value
C30_Witness ==
    /\ Compared
    /\ compared.type = "Quaternion"
    /\ compared.keep = MinKeep
    /\ compared.a.c[1] = compared.b.c[1]
    /\ compared.a.c[3] = compared.b.c[3]
    /\ compared.a.c[4] # compared.b.c[4]

-----------------------------------------------------------------------------
(* Properties of the search over parameter counts, checked under Spec *)

\* the signatures recorded so far for the operation being searched
RecordedHere(isStatic) ==
    {j \in DOMAIN allSignatures :
        /\ allSignatures[j].className = Types[classIdx]
        /\ allSignatures[j].methodName = methods[methodIdx]
        /\ allSignatures[j].isStatic = isStatic}

\* an instance-mode signature of k parameters is recorded for the operation
InstanceAcceptedAt(k) ==
    \E j \in RecordedHere(FALSE) : Len(allSignatures[j].parameters) = k

\* the loop over the tuples of one parameter count has ended
CountDone == pc = "combos" /\ combo.done

\* no instance-mode signature of the same operation has fewer parameters
\* than the count the static signature was recorded at
StaticNotAfterInstance(signatures, k) ==
    signatures[k].isStatic =>
        \A j \in DOMAIN signatures :
            (/\ ~signatures[j].isStatic
             /\ signatures[j].className = signatures[k].className
             /\ signatures[j].methodName = signatures[k].methodName)
                => Len(signatures[j].parameters) >= Len(signatures[k].parameters) + 1

\* C28: when the tuples of count k are exhausted, the search of the
\* operation goes on to count k + 1 exactly when no instance-mode signature
\* was accepted at count k and k is below maxParams, and ends otherwise,
\* whatever static signatures were accepted; a static signature, recorded at
\* the count one above its number of parameters, is never recorded at a
\* count above one with an instance-mode signature.
C28_StoppingCondition ==
    /\ [][CountDone =>
            /\ (pc' = "beginMethod" /\ methodIdx' = methodIdx + 1)
                  = InstanceAcceptedAt(paramCount)
            /\ (pc' = "beginCount" /\ paramCount' = paramCount + 1)
                  = ~InstanceAcceptedAt(paramCount)]_vars
    /\ [][(pc = "beginCount" /\ paramCount > MaxParams) =>
            (pc' = "beginMethod" /\ methodIdx' = methodIdx + 1)]_vars
    /\ [](\A k \in DOMAIN allSignatures :
             k >= Len(allSignatures) - 1 => StaticNotAfterInstance(allSignatures, k))
    /\ [](pc = "finished" =>
             \A k \in DOMAIN database.methods :
                 StaticNotAfterInstance(database.methods, k))

\* the tuples of a count below maxParams are exhausted with a static
\* signature accepted at that count and no instance-mode one: the search
\* goes on
C28_Witness ==
    /\ CountDone
    /\ paramCount < MaxParams
    /\ foundForThisCount
    /\ ~InstanceAcceptedAt(paramCount)
    /\ \E j \in RecordedHere(TRUE) :
          Len(allSignatures[j].parameters) + 1 = paramCount

\* a tuple of the current count is about to be tested
AtTuple == pc = "combos" /\ ~combo.done /\ Len(combo.value) = paramCount

\* the generator is at a tuple of another length
AtOtherLength == pc = "combos" /\ ~combo.done /\ Len(combo.value) # paramCount

\* the instance-mode signatures recorded for the operation being searched
\* are those of exactly the tuples of length k that testMethod accepts
RecordedAllOfLength(k) ==
    \A tuple \in TuplesOfLength(k) :
        TestMethod(Types[classIdx], methods[methodIdx], tuple, FALSE).accepted
            = (\E j \in RecordedHere(FALSE) : allSignatures[j].parameters = tuple)

\* C26: the tuples of a parameter count are tested one after the other in
\* instance mode, from the first of that length to the last, none being
\* left out; when the search stops at count k with an instance-mode
\* signature, the signatures recorded for the operation are those of every
\* accepted tuple of length 0..k.
C26_ExhaustiveSearch ==
    /\ [][AtTuple =>
            /\ lastTests'[1] =
                  TestRecord(Types[classIdx], methods[methodIdx], combo.value,
                             FALSE, [accepted |-> lastTests'[1].accepted,
                                     stage |-> lastTests'[1].stage])
            /\ \/ /\ ~combo'.done
                  /\ Len(combo'.value) = paramCount
                  /\ TupleIndex(combo'.value) = TupleIndex(combo.value) + 1
               \/ /\ TupleIndex(combo.value) = Power(Len(GenTypes), paramCount) - 1
                  /\ combo'.done \/ Len(combo'.value) = paramCount + 1]_vars
    /\ [][AtOtherLength =>
            \/ combo'.done /\ Len(combo.value) > paramCount
            \/ /\ ~combo'.done
               /\ Len(combo.value) < paramCount
               /\ Len(combo'.value) = paramCount
               /\ TupleIndex(combo'.value) = 0]_vars
    /\ []((CountDone /\ InstanceAcceptedAt(paramCount)) =>
             \A k \in 0..paramCount : RecordedAllOfLength(k))

\* the search of a two-argument operation stops at count 2 with more than
\* one signature recorded
C26_Witness ==
    /\ CountDone
    /\ methods[methodIdx] = "secondArg"
    /\ paramCount = 2
    /\ InstanceAcceptedAt(2)
    /\ Cardinality(RecordedHere(FALSE)) > 1
    /\ RecordedAllOfLength(2)

\* testMethod accepts some tuple of length n for the signature's operation
\* in instance mode
AcceptsAtArity(sig, n) ==
    \E tuple \in TuplesOfLength(n) :
        TestMethod(sig.className, sig.methodName, tuple, FALSE).accepted

\* C27: in the database of a finished run, the instance-mode signatures of
\* one owner type and operation all have the same number of parameters,
\* and testMethod accepts a tuple of that length for the operation but none
\* of any smaller length.
C27_SingleInstanceArity ==
    pc = "finished" =>
        \A j \in DOMAIN database.methods :
            ~database.methods[j].isStatic =>
                /\ \A k \in DOMAIN database.methods :
                      (/\ ~database.methods[k].isStatic
                       /\ database.methods[k].className
                             = database.methods[j].className
                       /\ database.methods[k].methodName
                             = database.methods[j].methodName)
                          => Len(database.methods[k].parameters)
                                = Len(database.methods[j].parameters)
                /\ AcceptsAtArity(database.methods[j],
                                  Len(database.methods[j].parameters))
                /\ \A n \in 0..(Len(database.methods[j].parameters) - 1) :
                      ~AcceptsAtArity(database.methods[j], n)

\* a database with two signatures of two parameters for one operation of
\* one owner type
C27_Witness ==
    /\ pc = "finished"
    /\ \E j, k \in DOMAIN database.methods :
          /\ j < k
          /\ ~database.methods[j].isStatic
          /\ ~database.methods[k].isStatic
          /\ database.methods[j].className = database.methods[k].className
          /\ database.methods[j].methodName = "secondArg"
          /\ database.methods[k].methodName = "secondArg"
          /\ Len(database.methods[j].parameters) = 2
          /\ Len(database.methods[k].parameters) = 2

====
